---- MODULE Spec2Model ----
(***************************************************************************)
(* Model of the climate-analysis scripts:                                  *)
(*   trend_analysis.py   convert_time_to_numeric, compute_linear_trend     *)
(*   data_loader.py      load_netcdf, detect_time_format                   *)
(*   plotting.py         plot_trend_with_region, save_figure               *)
(*   climate_analysis.py the main loop over SCENARIOS                      *)
(*                                                                         *)
(* A call of a Python function is modelled by an operator that yields an   *)
(* outcome record: the value returned or the exception raised, the         *)
(* messages printed (log) and the checkpoints of the function body that    *)
(* were executed (trace).                                                  *)
(*                                                                         *)
(* Numbers.  A fractional year year + month/12 is held exactly as the      *)
(* integer 12*year + month (the value times MonthsPerYear).  A datetime64  *)
(* value cast to float is held as whole days since 1970-01-01; the float   *)
(* the code produces is that count times the nanoseconds of a day, a       *)
(* positive factor that keeps order, equality and the value 0.  A slope is *)
(* the exact fraction num/den in the unit of the time values.              *)
(***************************************************************************)
EXTENDS Integers, Sequences, FiniteSets, TLC

\* ------------------------------------------------------------ inputs

\* Longest time axis of a dataset.
MaxLen == 3

\* year + month / 12 (trend_analysis.py line 30).
MonthsPerYear == 12

\* Calendar dates a time coordinate may hold (both calendars); in
\* chronological order: two days of one month, a December, and the January
\* after it.
Timestamps ==
    { [year |-> 1970, month |-> 1,  day |-> 1],
      [year |-> 1970, month |-> 1,  day |-> 28],
      [year |-> 1970, month |-> 12, day |-> 1],
      [year |-> 1971, month |-> 1,  day |-> 1] }

\* Non-time coordinates (grid points) of the observation field.
Coords == {"p1", "p2"}

\* Variable names a caller may request; a dataset's variable, when it has
\* one, is "PRECT".
VarNames == {"PRECT", "TS"}

\* ------------------------------------------------------------ values

\* A measurement: a number or a missing value (NaN).
Num(v) == [nan |-> FALSE, v |-> v]
NaN == [nan |-> TRUE, v |-> 0]
Measurements == {Num(0), Num(1), NaN}

\* Python's None, a float array, and the pair the trend functions return.
NoneV == [tag |-> "None"]
ArrayV(s) == [tag |-> "array", vals |-> s]
FloatV(v) == [tag |-> "float", v |-> v]
PairV(a, b) == [tag |-> "pair", fst |-> a, snd |-> b]
NonePair == PairV(NoneV, NoneV)

\* What a call did: returned a value or raised, what it printed, and which
\* checkpoints of its body it executed.
Return(v, log, trace) ==
    [kind |-> "return", value |-> v, exc |-> "", log |-> log, trace |-> trace]
Raise(e, log, trace) ==
    [kind |-> "raise", value |-> NoneV, exc |-> e, log |-> log, trace |-> trace]

\* ------------------------------------------------------------ datasets

\* Chronological order of two dates.
DateLeq(a, b) ==
    \/ a.year < b.year
    \/ a.year = b.year /\ a.month < b.month
    \/ a.year = b.year /\ a.month = b.month /\ a.day <= b.day

IsNonDecreasing(s) == \A i \in 1..(Len(s) - 1) : DateLeq(s[i], s[i + 1])

SeqsUpTo(S, n) == UNION { [1..k -> S] : k \in 0..n }

\* A time coordinate: its values in file order (a time axis is written in
\* chronological order) and whether they are cftime objects (a non-standard
\* calendar) or datetime64 values.
TimeCoords ==
    { [cftime |-> c, values |-> s] :
        c \in BOOLEAN, s \in { t \in SeqsUpTo(Timestamps, MaxLen) : IsNonDecreasing(t) } }

NoTime == [cftime |-> FALSE, values |-> <<>>]

\* The observation field of a dataset with a time axis of n values: one
\* series of n measurements per non-time coordinate.
Fields(n) == [Coords -> [1..n -> Measurements]]

\* A dataset: whether it has a "time" coordinate, the coordinate, the names
\* of its data variables in order, and the field of its (first) variable.
\* A dataset without a variable or without a time axis has no series.
Dataset(h, t, vars, f) ==
    [has_time |-> h, time |-> t, data_vars |-> vars, field |-> f]

\* The field of a dataset that has no series.
NoField == [c \in Coords |-> <<>>]

\* `name in ds` for a data variable name.
VarInDs(ds, name) == \E i \in 1..Len(ds.data_vars) : ds.data_vars[i] = name

\* ------------------------------------------------- trend_analysis.py

\* Fault variant of FractionalYear: month // 12, an integer division, which
\* is 0 for every month but December.
FractionalYear_integer_division(t) == MonthsPerYear * (t.year + (t.month \div MonthsPerYear))

\* t.year + t.month / 12, times MonthsPerYear.
FractionalYear(t) == MonthsPerYear * t.year + t.month

\* Days before the first of each month in a year of 365 days.
DaysBeforeMonth == <<0, 31, 59, 90, 120, 151, 181, 212, 243, 273, 304, 334>>

\* A datetime64 value cast to float: the time since 1970-01-01, in days
\* (1970 and 1971 have 365 days each).
AsTypeFloat(t) == (t.year - 1970) * 365 + DaysBeforeMonth[t.month] + (t.day - 1)

\* convert_time_to_numeric(ds).  values[0] of an empty axis raises
\* IndexError; so does numeric_time[1] of a one-element cftime axis, read for
\* the printed frequency.
convert_time_to_numeric(ds) ==
    IF ~ds.has_time
    THEN Return(NoneV, <<"no_time_variable">>, <<"check_time">>)
    ELSE LET values == ds.time.values IN
         IF Len(values) = 0
         THEN Raise("IndexError", <<>>, <<"check_time", "first_value">>)
         ELSE IF ds.time.cftime
         THEN LET numeric_time == [i \in 1..Len(values) |-> FractionalYear(values[i])] IN
              IF Len(numeric_time) < 2
              THEN Raise("IndexError", <<"converting_cftime">>,
                         <<"check_time", "first_value", "cftime", "frequency">>)
              ELSE Return(ArrayV(numeric_time), <<"converting_cftime", "time_range">>,
                          <<"check_time", "first_value", "cftime", "frequency">>)
         ELSE Return(ArrayV([i \in 1..Len(values) |-> AsTypeFloat(values[i])]), <<>>,
                     <<"check_time", "first_value", "astype_float">>)

\* Sum of f[i] over i in 1..n.
RECURSIVE SumTo(_, _)
SumTo(f, n) == IF n = 0 THEN 0 ELSE f[n] + SumTo(f, n - 1)

HasNaN(y) == \E i \in 1..Len(y) : y[i].nan

AllIdentical(x) == \A i \in 1..Len(x) : x[i] = x[1]

\* A slope: the fraction num/den (den > 0), or NaN.
Slope(num, den) == [nan |-> FALSE, num |-> num, den |-> den]
NaNSlope == [nan |-> TRUE, num |-> 0, den |-> 1]

\* Ordinary least squares slope of y against x: covariance(x, y) over
\* variance(x), both taken on the deviations n*v[i] - sum(v) from the mean.
OLS(x, y) ==
    LET n == Len(x)
        sx == SumTo(x, n)
        sy == SumTo([i \in 1..n |-> y[i].v], n)
        dx == [i \in 1..n |-> n * x[i] - sx]
        dy == [i \in 1..n |-> n * y[i].v - sy]
    IN Slope(SumTo([i \in 1..n |-> dx[i] * dy[i]], n),
             SumTo([i \in 1..n |-> dx[i] * dx[i]], n))

\* Fault variant of linregress: no test for identical x values, so the
\* division by the zero variance is carried out and its result returned.
linregress_without_identical_test(x, y) ==
    IF HasNaN(y)
    THEN [raised |-> FALSE, slope |-> NaNSlope, p_value |-> "p"]
    ELSE [raised |-> FALSE, slope |-> OLS(x, y), p_value |-> "p"]

\* Fault variant of linregress: a missing value is replaced by 0 before the
\* regression.
linregress_missing_as_zero(x, y) ==
    IF Len(x) > 1 /\ AllIdentical(x)
    THEN [raised |-> TRUE, slope |-> NaNSlope, p_value |-> "p"]
    ELSE [raised |-> FALSE, slope |-> OLS(x, y), p_value |-> "p"]

\* scipy.stats.linregress(x, y) as linreg uses it: it raises ValueError when
\* all x values are identical; a NaN in y makes the slope NaN (nothing is
\* dropped or filled in).  The p-value is the significance of that slope; its
\* number is not modelled.
linregress(x, y) ==
    IF Len(x) > 1 /\ AllIdentical(x)
    THEN [raised |-> TRUE, slope |-> NaNSlope, p_value |-> "p"]
    ELSE IF HasNaN(y)
    THEN [raised |-> FALSE, slope |-> NaNSlope, p_value |-> "p"]
    ELSE [raised |-> FALSE, slope |-> OLS(x, y), p_value |-> "p"]

\* xr.apply_ufunc(linreg, var_data, input_core_dims=[["time"]], vectorize=True):
\* linreg on the series of every non-time coordinate.
apply_ufunc(time_values, var_data) ==
    [c \in Coords |-> linregress(time_values, var_data[c])]

\* Fault variant of trend_of_variable: the test len(time_values) < 2 is
\* missing.
trend_of_variable_without_length_test(ds) ==
    IF ~ds.has_time
    THEN Return(NonePair, <<"computing_trend", "no_time_dimension">>,
                <<"check_var", "check_time">>)
    ELSE LET conv == convert_time_to_numeric(ds)
             log == <<"computing_trend">> \o conv.log
         IN
         IF conv.kind = "raise"
         THEN Raise(conv.exc, log, <<"check_var", "check_time", "normalize">>)
         ELSE LET res == apply_ufunc(conv.value.vals, ds.field)
                  trace == <<"check_var", "check_time", "normalize", "regress">>
              IN
              IF \E c \in Coords : res[c].raised
              THEN Return(NonePair, log \o <<"trend_computation_failed">>, trace)
              ELSE Return(PairV(ArrayV([c \in Coords |-> res[c].slope]),
                                ArrayV([c \in Coords |-> res[c].p_value])),
                          log \o <<"trend_computed">>, trace)

\* compute_linear_trend, after the variable was found: the time axis, its
\* conversion, its length, and the regression under try/except.
trend_of_variable(ds) ==
    IF ~ds.has_time
    THEN Return(NonePair, <<"computing_trend", "no_time_dimension">>,
                <<"check_var", "check_time">>)
    ELSE LET conv == convert_time_to_numeric(ds)
             log == <<"computing_trend">> \o conv.log
         IN
         IF conv.kind = "raise"
         THEN Raise(conv.exc, log, <<"check_var", "check_time", "normalize">>)
         ELSE IF conv.value = NoneV
         THEN Return(NonePair, log \o <<"time_conversion_failed">>,
                     <<"check_var", "check_time", "normalize">>)
         ELSE LET time_values == conv.value.vals IN
              IF Len(time_values) < 2
              THEN Return(NonePair, log \o <<"not_enough_time_points">>,
                          <<"check_var", "check_time", "normalize", "check_len">>)
              ELSE LET res == apply_ufunc(time_values, ds.field)
                       trace == <<"check_var", "check_time", "normalize", "check_len",
                                  "regress">>
                   IN
                   IF \E c \in Coords : res[c].raised
                   THEN Return(NonePair, log \o <<"trend_computation_failed">>, trace)
                   ELSE Return(PairV(ArrayV([c \in Coords |-> res[c].slope]),
                                     ArrayV([c \in Coords |-> res[c].p_value])),
                               log \o <<"trend_computed">>, trace)

\* Fault variant of compute_linear_trend: the time axis is converted before
\* the variable is looked up.
compute_linear_trend_normalize_first(ds, var_name) ==
    LET conv == convert_time_to_numeric(ds) IN
    IF conv.kind = "raise"
    THEN Raise(conv.exc, <<"computing_trend">> \o conv.log, <<"check_time", "normalize">>)
    ELSE IF ~VarInDs(ds, var_name)
    THEN Return(NonePair, <<"computing_trend">> \o conv.log \o <<"variable_not_found">>,
                <<"check_time", "normalize", "check_var">>)
    ELSE trend_of_variable(ds)

\* compute_linear_trend(ds, var_name).
compute_linear_trend(ds, var_name) ==
    IF ~VarInDs(ds, var_name)
    THEN Return(NonePair, <<"computing_trend", "variable_not_found">>, <<"check_var">>)
    ELSE trend_of_variable(ds)

\* ---------------------------------------------------- data_loader.py

\* The earliest and the latest of a non-empty sequence of dates.
MinDate(s) == CHOOSE a \in {s[i] : i \in 1..Len(s)} : \A j \in 1..Len(s) : DateLeq(a, s[j])
MaxDate(s) == CHOOSE a \in {s[i] : i \in 1..Len(s)} : \A j \in 1..Len(s) : DateLeq(s[j], a)

\* detect_time_format(ds): None without a time coordinate, else the tuple
\* (time_start, time_end, time_units); values[0] of an empty axis raises.
detect_time_format(ds) ==
    IF ~ds.has_time
    THEN Return(NoneV, <<"no_time_dimension_found">>, <<>>)
    ELSE IF Len(ds.time.values) = 0
    THEN Raise("IndexError", <<>>, <<>>)
    ELSE Return([tag |-> "tuple", time_start |-> MinDate(ds.time.values),
                 time_end |-> MaxDate(ds.time.values), time_units |-> "units"],
                <<"time_detected">>, <<>>)

\* ------------------------------------------------------- plotting.py

Figure == [tag |-> "figure"]

\* plot_trend_with_region(trend, var_name, time_info, var_units, start_year,
\* end_year); latlon: the trend has the dimensions "lat" and "lon".
\* Unpacking time_info = None raises TypeError; trend.dims of trend = None
\* raises AttributeError, before the isinstance test is reached.
plot_trend_with_region(trend, time_info, start_year, end_year, latlon) ==
    IF time_info = NoneV
    THEN Raise("TypeError", <<"creating_plot">>, <<"unpack_time_info">>)
    ELSE IF trend = NoneV
    THEN Raise("AttributeError", <<"creating_plot", "time_info">>,
               <<"unpack_time_info", "subplots", "print_dims">>)
    ELSE IF ~latlon
    THEN Return(NoneV, <<"creating_plot", "time_info", "no_lat_lon">>,
                <<"unpack_time_info", "subplots", "print_dims", "is_dataarray",
                  "check_lat_lon">>)
    ELSE Return(Figure, <<"creating_plot", "time_info", "caption">>,
                <<"unpack_time_info", "subplots", "print_dims", "is_dataarray",
                  "check_lat_lon", "fillna", "pcolormesh", "caption">>)

\* save_figure(fig, ...): plotting.py reads SAVE_DIR, a name it neither
\* defines nor imports, so the first statement raises NameError.
save_figure(fig) == Raise("NameError", <<>>, <<"makedirs">>)

\* ------------------------------------------------------------ state

VARIABLES
    ds,             \* the dataset in the file (read-only input)
    pc,             \* where the caller is
    call,           \* a direct call of a trend_analysis function: its outcome
    dataset,        \* climate_analysis.py: load_netcdf's result
    variable_name,  \* ... the variable selected
    numeric_time,   \* ... convert_time_to_numeric's result
    start_year,     \* ... numeric_time[0], unbound until assigned
    end_year,       \* ... numeric_time[-1], unbound until assigned
    trend_map,      \* ... compute_linear_trend's first result
    p_value_map,    \* ... compute_linear_trend's second result
    time_info,      \* ... detect_time_format's result
    plot_call,      \* ... the arguments plot_trend_with_region was called with
    fig_trend,      \* ... plot_trend_with_region's result
    error           \* ... the uncaught exception that ended the script

vars == <<ds, pc, call, dataset, variable_name, numeric_time, start_year, end_year,
          trend_map, p_value_map, time_info, plot_call, fig_trend, error>>

main_vars == <<dataset, variable_name, numeric_time, start_year, end_year,
               trend_map, p_value_map, time_info, plot_call, fig_trend, error>>

\* A name not yet bound, and a call not made.
Unbound == [tag |-> "unbound"]
NoCall == [fn |-> "", var_name |-> "", out |-> Return(NoneV, <<>>, <<>>)]

\* The datasets a file may hold: with a time axis and a variable, with a time
\* axis only, and without a time axis.
Init ==
    /\ \/ \E t \in TimeCoords : \E f \in Fields(Len(t.values)) :
            ds = Dataset(TRUE, t, <<"PRECT">>, f)
       \/ \E t \in TimeCoords : ds = Dataset(TRUE, t, <<>>, NoField)
       \/ \E names \in {<<>>, <<"PRECT">>} : ds = Dataset(FALSE, NoTime, names, NoField)
    /\ pc = "start"
    /\ call = NoCall
    /\ dataset = Unbound
    /\ variable_name = Unbound
    /\ numeric_time = Unbound
    /\ start_year = Unbound
    /\ end_year = Unbound
    /\ trend_map = Unbound
    /\ p_value_map = Unbound
    /\ time_info = Unbound
    /\ plot_call = Unbound
    /\ fig_trend = Unbound
    /\ error = ""

\* ------------------------------------- calls of the core's functions

\* A caller calls convert_time_to_numeric(ds).
CallConvert ==
    /\ pc = "start"
    /\ call' = [fn |-> "convert_time_to_numeric", var_name |-> "",
                out |-> convert_time_to_numeric(ds)]
    /\ pc' = "returned"
    /\ UNCHANGED <<ds, main_vars>>

\* A caller calls compute_linear_trend(ds, var_name).
CallTrend ==
    /\ pc = "start"
    /\ \E v \in VarNames :
         call' = [fn |-> "compute_linear_trend", var_name |-> v,
                  out |-> compute_linear_trend(ds, v)]
    /\ pc' = "returned"
    /\ UNCHANGED <<ds, main_vars>>

\* ------------------------------------------------ climate_analysis.py

\* dataset = load_netcdf(file_path): the dataset, or None when the file
\* cannot be opened.
MainLoad ==
    /\ pc = "start"
    /\ dataset' \in {ds, NoneV}
    /\ pc' = "loaded"
    /\ UNCHANGED <<ds, call, variable_name, numeric_time, start_year, end_year,
                   trend_map, p_value_map, time_info, plot_call, fig_trend, error>>

\* `if dataset:` (a Dataset is true when it has a data variable) and the
\* selection of the first variable.
MainSelect ==
    /\ pc = "loaded"
    /\ IF dataset # NoneV /\ Len(dataset.data_vars) > 0
       THEN variable_name' = dataset.data_vars[1] /\ pc' = "convert"
       ELSE variable_name' = variable_name /\ pc' = "end"
    /\ UNCHANGED <<ds, call, dataset, numeric_time, start_year, end_year,
                   trend_map, p_value_map, time_info, plot_call, fig_trend, error>>

\* numeric_time = convert_time_to_numeric(dataset); start_year and end_year
\* are assigned only when it is not None.
MainConvert ==
    /\ pc = "convert"
    /\ LET out == convert_time_to_numeric(dataset) IN
       IF out.kind = "raise"
       THEN /\ error' = out.exc
            /\ pc' = "crashed"
            /\ UNCHANGED <<numeric_time, start_year, end_year>>
       ELSE /\ numeric_time' = out.value
            /\ IF out.value # NoneV
               THEN /\ start_year' = FloatV(out.value.vals[1])
                    /\ end_year' = FloatV(out.value.vals[Len(out.value.vals)])
               ELSE UNCHANGED <<start_year, end_year>>
            /\ pc' = "trend"
            /\ error' = error
    /\ UNCHANGED <<ds, call, dataset, variable_name, trend_map, p_value_map,
                   time_info, plot_call, fig_trend>>

\* trend_map, p_value_map = compute_linear_trend(dataset, variable_name);
\* a None trend_map is reported and the script goes on.
MainTrend ==
    /\ pc = "trend"
    /\ LET out == compute_linear_trend(dataset, variable_name) IN
       IF out.kind = "raise"
       THEN /\ error' = out.exc
            /\ pc' = "crashed"
            /\ UNCHANGED <<trend_map, p_value_map>>
       ELSE /\ trend_map' = out.value.fst
            /\ p_value_map' = out.value.snd
            /\ pc' = "detect"
            /\ error' = error
    /\ UNCHANGED <<ds, call, dataset, variable_name, numeric_time, start_year,
                   end_year, time_info, plot_call, fig_trend>>

\* time_info = detect_time_format(dataset).
MainDetect ==
    /\ pc = "detect"
    /\ LET out == detect_time_format(dataset) IN
       IF out.kind = "raise"
       THEN error' = out.exc /\ pc' = "crashed" /\ time_info' = time_info
       ELSE error' = error /\ pc' = "plot" /\ time_info' = out.value
    /\ UNCHANGED <<ds, call, dataset, variable_name, numeric_time, start_year,
                   end_year, trend_map, p_value_map, plot_call, fig_trend>>

\* fig_trend = plot_trend_with_region(trend=trend_map, ..., start_year=
\* start_year, end_year=end_year): reading an unbound start_year raises
\* NameError before the call; the call is made whatever trend_map is.
MainPlot ==
    /\ pc = "plot"
    /\ IF start_year = Unbound \/ end_year = Unbound
       THEN /\ error' = "NameError"
            /\ pc' = "crashed"
            /\ UNCHANGED <<plot_call, fig_trend>>
       ELSE \E latlon \in BOOLEAN :
              LET out == plot_trend_with_region(trend_map, time_info, start_year,
                                                end_year, latlon)
              IN /\ plot_call' = [trend |-> trend_map, time_info |-> time_info,
                                  start_year |-> start_year, end_year |-> end_year]
                 /\ IF out.kind = "raise"
                    THEN error' = out.exc /\ pc' = "crashed" /\ fig_trend' = fig_trend
                    ELSE error' = error /\ pc' = "save" /\ fig_trend' = out.value
    /\ UNCHANGED <<ds, call, dataset, variable_name, numeric_time, start_year,
                   end_year, trend_map, p_value_map, time_info>>

\* `if fig_trend:` save_figure(...), else "No figure to save!"; the loop
\* over SCENARIOS has no further dataset.
MainSave ==
    /\ pc = "save"
    /\ IF fig_trend # NoneV
       THEN LET out == save_figure(fig_trend) IN
            IF out.kind = "raise"
            THEN error' = out.exc /\ pc' = "crashed"
            ELSE error' = error /\ pc' = "end"
       ELSE error' = error /\ pc' = "end"
    /\ UNCHANGED <<ds, call, dataset, variable_name, numeric_time, start_year,
                   end_year, trend_map, p_value_map, time_info, plot_call, fig_trend>>

\* The core's functions, called on any dataset and variable name.
Next ==
    \/ CallConvert
    \/ CallTrend

Spec == Init /\ [][Next]_vars

\* One run of climate_analysis.py on the dataset.
MainNext ==
    \/ MainLoad
    \/ MainSelect
    \/ MainConvert
    \/ MainTrend
    \/ MainDetect
    \/ MainPlot
    \/ MainSave

MainSpec == Init /\ [][MainNext]_vars

\* ------------------------------------------------------- properties

TrendCalled == pc = "returned" /\ call.fn = "compute_linear_trend"
ConvertCalled == pc = "returned" /\ call.fn = "convert_time_to_numeric"

Last(s) == s[Len(s)]
IsPrefix(s, t) == Len(s) <= Len(t) /\ \A i \in 1..Len(s) : s[i] = t[i]

\* The order of the preconditions of compute_linear_trend.
PreconditionOrder == <<"check_var", "check_time", "normalize", "check_len", "regress">>

\* The time axis converts to two or more values / to values all identical.
NormalizedLen(d) ==
    LET c == convert_time_to_numeric(d) IN
    IF c.kind = "return" /\ c.value # NoneV THEN Len(c.value.vals) ELSE 0
Degenerate(d) ==
    LET c == convert_time_to_numeric(d) IN
    c.kind = "return" /\ c.value # NoneV /\ AllIdentical(c.value.vals)

\* The trend call reached the regression: variable and time axis present,
\* conversion returned two or more values.
RegressionInput ==
    /\ TrendCalled
    /\ VarInDs(ds, call.var_name)
    /\ ds.has_time
    /\ NormalizedLen(ds) >= 2

\* C1: the preconditions of compute_linear_trend are evaluated in the order
\* variable, time axis, normalization, length, regression; when the requested
\* variable is absent the call returns (None, None) for that reason after the
\* variable test alone, whatever the time axis is: no conversion of the time
\* axis and no regression was started.
C1_VariableCheckedFirst ==
    TrendCalled =>
        /\ IsPrefix(call.out.trace, PreconditionOrder)
        /\ ~VarInDs(ds, call.var_name) =>
              /\ call.out.kind = "return"
              /\ call.out.value = NonePair
              /\ call.out.trace = <<"check_var">>
              /\ call.out.log = <<"computing_trend", "variable_not_found">>

\* C1 witness: the variable is absent from a dataset whose time axis holds a
\* single cftime date, on which the conversion would raise.
C1_Witness ==
    /\ TrendCalled
    /\ ~VarInDs(ds, call.var_name)
    /\ ds.has_time /\ ds.time.cftime /\ Len(ds.time.values) = 1
    /\ call.out.value = NonePair

\* C2 (the claim as stated): with the variable present and a time axis of
\* exactly one timestamp, compute_linear_trend returns the failure "not enough
\* time points" (InsufficientSamples) and raises nothing.
C2_SingleTimestampInsufficient ==
    (TrendCalled /\ VarInDs(ds, call.var_name) /\ ds.has_time
                 /\ Len(ds.time.values) = 1) =>
        /\ call.out.kind = "return"
        /\ call.out.value = NonePair
        /\ Last(call.out.log) = "not_enough_time_points"

\* The cause a failed trend call reports: the last message it printed.
Cause(out) == Last(out.log)
Failed(out) == out.kind = "return" /\ out.value = NonePair

\* Failures of two different causes, for comparison: a missing variable and
\* a missing time axis.
ReferenceFailures ==
    { compute_linear_trend(Dataset(FALSE, NoTime, <<"PRECT">>, NoField), v) : v \in VarNames }

\* C3 (the claim as stated): the returned value alone tells the failure
\* causes apart: two failed calls of different causes return different values.
C3_ReturnedValueTellsCause ==
    (TrendCalled /\ Failed(call.out)) =>
        \A ref \in ReferenceFailures :
            Cause(ref) # Cause(call.out) => ref.value # call.out.value

\* C3 (amended): every failure compute_linear_trend reports to its caller is
\* the same returned value (None, None); the causes differ only in the message
\* printed: "variable not found" exactly when the variable is absent, "no time
\* dimension" exactly when the variable is present and the time axis absent,
\* "not enough time points" exactly when the axis converts to fewer than two
\* values, "trend computation failed" exactly when the regression raised; a
\* failed conversion is never returned ("time conversion failed" is never
\* printed) but raised, and a success is never (None, None).
C3_FailuresShareValue ==
    TrendCalled =>
        LET out == call.out
            has_var == VarInDs(ds, call.var_name)
            conv == convert_time_to_numeric(ds)
        IN
        /\ out.kind = "return" =>
              (out.value = NonePair <=> Cause(out) # "trend_computed")
        /\ (Failed(out) /\ Cause(out) = "variable_not_found") <=> ~has_var
        /\ (Failed(out) /\ Cause(out) = "no_time_dimension") <=> (has_var /\ ~ds.has_time)
        /\ (Failed(out) /\ Cause(out) = "not_enough_time_points") <=>
              (has_var /\ ds.has_time /\ conv.kind = "return" /\ Len(conv.value.vals) < 2)
        /\ (Failed(out) /\ Cause(out) = "trend_computation_failed") <=>
              (has_var /\ ds.has_time /\ NormalizedLen(ds) >= 2 /\ Degenerate(ds))
        /\ Cause(out) # "time_conversion_failed"
        /\ (has_var /\ ds.has_time /\ conv.kind = "raise") <=> out.kind = "raise"

\* C3 witness: a failed call whose cause is the length of the time axis.
C3_Witness ==
    /\ TrendCalled
    /\ Failed(call.out)
    /\ Cause(call.out) = "not_enough_time_points"

\* C4 (the claim as stated): convert_time_to_numeric returns an error value
\* for a time coordinate that is present but empty, different from the value
\* it returns for a missing time coordinate, and raises nothing.
C4_EmptyAxisReported ==
    (ConvertCalled /\ ds.has_time /\ Len(ds.time.values) = 0) =>
        /\ call.out.kind = "return"
        /\ call.out.value # convert_time_to_numeric(Dataset(FALSE, NoTime, <<>>, NoField)).value

\* C5: a time axis of two or more values that are all identical after
\* conversion makes compute_linear_trend return the failure "trend computation
\* failed" (RegressionFailed) whatever the observation field holds: nothing is
\* raised and no slope, NaN or other, is returned as a success.
C5_DegenerateAxisFails ==
    (RegressionInput /\ Degenerate(ds)) =>
        /\ call.out.kind = "return"
        /\ call.out.value = NonePair
        /\ Cause(call.out) = "trend_computation_failed"
        /\ Last(call.out.trace) = "regress"

\* C5 witness: three identical values (cftime dates of one month, or one
\* datetime64 date three times) and a field without a missing value.
C5_Witness ==
    /\ RegressionInput
    /\ Degenerate(ds)
    /\ NormalizedLen(ds) = 3
    /\ \A c \in Coords : ~HasNaN(ds.field[c])
    /\ call.out.value = NonePair

\* The regression ran on a time axis with two or more values, not all
\* identical.
RegressionRan == RegressionInput /\ ~Degenerate(ds)

\* C6 (the claim as stated): a missing value in the series of some coordinate
\* is reported as a failure (RegressionFailed); the caller gets no success
\* result for it.
C6_MissingValueFails ==
    (RegressionRan /\ \E c \in Coords : HasNaN(ds.field[c])) =>
        Failed(call.out)

\* C6 (amended): a missing value in the series of some coordinate does not
\* make compute_linear_trend fail: the call returns an ordinary success
\* result in which the slope at that coordinate is NaN (the value is neither
\* dropped nor filled in), and the slope at every coordinate without a
\* missing value is the least-squares slope of its own series.
C6_MissingValueGivesNaN ==
    RegressionRan =>
        /\ call.out.kind = "return"
        /\ call.out.value # NonePair
        /\ Cause(call.out) = "trend_computed"
        /\ \A c \in Coords :
              LET slope == call.out.value.fst.vals[c] IN
              IF HasNaN(ds.field[c])
              THEN slope.nan
              ELSE ~slope.nan /\ slope.den > 0
                   /\ slope = OLS(convert_time_to_numeric(ds).value.vals, ds.field[c])

\* C6 witness: one coordinate has a missing value, the other has none and a
\* slope that is not 0.
C6_Witness ==
    /\ RegressionRan
    /\ HasNaN(ds.field["p1"])
    /\ ~HasNaN(ds.field["p2"])
    /\ call.out.value.fst.vals["p1"].nan
    /\ call.out.value.fst.vals["p2"].num # 0

\* The dates of s are distinct and in ascending order.
IsAscending(s) ==
    \A i \in 1..(Len(s) - 1) : DateLeq(s[i], s[i + 1]) /\ s[i] # s[i + 1]

SameMonth(a, b) == a.year = b.year /\ a.month = b.month

\* C7 (the claim as stated): two or more distinct timestamps in ascending
\* order convert to a strictly increasing sequence.
C7_StrictlyIncreasing ==
    (ConvertCalled /\ ds.has_time /\ Len(ds.time.values) >= 2
                   /\ IsAscending(ds.time.values)) =>
        /\ call.out.kind = "return"
        /\ \A i \in 1..(Len(ds.time.values) - 1) :
              call.out.value.vals[i] < call.out.value.vals[i + 1]

\* C7 (amended): two or more distinct timestamps in ascending order convert
\* to a non-decreasing sequence; two consecutive values are equal exactly when
\* the two timestamps are cftime dates of the same month of the same year, and
\* strictly increasing otherwise.  (So a converted axis can have values that
\* are all identical.)
C7_IncreasingAcrossMonths ==
    (ConvertCalled /\ ds.has_time /\ Len(ds.time.values) >= 2
                   /\ IsAscending(ds.time.values)) =>
        /\ call.out.kind = "return"
        /\ \A i \in 1..(Len(ds.time.values) - 1) :
              LET a == call.out.value.vals[i]
                  b == call.out.value.vals[i + 1]
              IN /\ a <= b
                 /\ a = b <=> (ds.time.cftime
                               /\ SameMonth(ds.time.values[i], ds.time.values[i + 1]))

\* C7 witness: distinct ascending cftime dates convert to identical values.
C7_Witness ==
    /\ ConvertCalled
    /\ ds.has_time /\ ds.time.cftime
    /\ Len(ds.time.values) >= 2
    /\ IsAscending(ds.time.values)
    /\ call.out.kind = "return"
    /\ AllIdentical(call.out.value.vals)

\* C8 (the claim as stated): every non-decreasing sequence of cftime
\* timestamps converts to a sequence of the same length whose element i is
\* year_i + month_i/12 (here times MonthsPerYear) and which is non-decreasing.
C8_FormulaForEverySequence ==
    (ConvertCalled /\ ds.has_time /\ ds.time.cftime /\ Len(ds.time.values) >= 1
                   /\ IsNonDecreasing(ds.time.values)) =>
        /\ call.out.kind = "return"
        /\ Len(call.out.value.vals) = Len(ds.time.values)
        /\ \A i \in 1..Len(ds.time.values) :
              call.out.value.vals[i]
                 = MonthsPerYear * ds.time.values[i].year + ds.time.values[i].month
        /\ \A i \in 1..(Len(ds.time.values) - 1) :
              call.out.value.vals[i] <= call.out.value.vals[i + 1]

\* Comparison of the float made from a datetime64 value, days * (the
\* nanoseconds of a day), with a whole number k, 0 <= k <= the nanoseconds of
\* a day.
FloatGeq(days, k) == days >= 1 \/ (days = 0 /\ k <= 0)
FloatLt(days, k) == days <= -1 \/ (days = 0 /\ k > 0)

\* C9 (the claim as stated): a datetime64 timestamp of calendar year Y
\* converts to a value v with Y <= v < Y + 1.
C9_StandardPathFractionalYear ==
    (ConvertCalled /\ ds.has_time /\ ~ds.time.cftime /\ Len(ds.time.values) >= 1) =>
        /\ call.out.kind = "return"
        /\ \A i \in 1..Len(ds.time.values) :
              /\ FloatGeq(call.out.value.vals[i], ds.time.values[i].year)
              /\ FloatLt(call.out.value.vals[i], ds.time.values[i].year + 1)

\* C10 (the claim as stated): once convert_time_to_numeric returned None or
\* compute_linear_trend returned (None, None), the script does not call
\* plot_trend_with_region and does not end with an uncaught exception.
C10_PlotOnlyAfterSuccess ==
    (numeric_time = NoneV \/ trend_map = NoneV) =>
        /\ plot_call = Unbound
        /\ pc # "crashed"

====
